---- MODULE Spec2Model ----
(***************************************************************************)
(* The file-patch engine of opendevin/action/fileop.py: resolve_path,      *)
(* validate_file_content and its checkers, FileReadAction.run and          *)
(* FileWriteAction.run, over a small filesystem.                           *)
(*                                                                         *)
(* Text is a sequence of characters; a character is a one-character        *)
(* string.  Paths, file contents, diagnostics and observation payloads are *)
(* all text, so splitting, joining, slicing and path handling are computed *)
(* the way the Python code computes them.                                  *)
(***************************************************************************)
EXTENDS Integers, Sequences, FiniteSets, TLC

\* ------------------------------------------------------------------------
\* Bounds of the model

\* start, end and start_index are drawn from -MaxIdx..MaxIdx (and, for
\* start_index, the same offsets around +/- the window size)
MaxIdx == 1
\* a Write is issued only while the target holds at most MaxFileLen characters
MaxFileLen == 3
\* the long files of the initial filesystem have 100 .. 100+MaxExtraLines lines
MaxExtraLines == 2

\* ------------------------------------------------------------------------
\* Text primitives (Python str / list operations used by the code)

NL == "\n"

Min(a, b) == IF a < b THEN a ELSE b
Max(a, b) == IF a > b THEN a ELSE b

\* The recursive operators below halve their argument, so that a file of
\* a hundred lines is handled at a recursion depth of a few levels.

\* the concatenation of a sequence of texts
RECURSIVE Concat(_)
Concat(parts) ==
    IF parts = <<>> THEN <<>>
    ELSE IF Len(parts) = 1 THEN parts[1]
    ELSE LET m == Len(parts) \div 2
         IN  Concat(SubSeq(parts, 1, m)) \o Concat(SubSeq(parts, m + 1, Len(parts)))

\* the lines of a text x \o y from the lines of x and of y: an unterminated
\* last line of x continues in the first line of y
JoinLines(xs, ys) ==
    IF xs = <<>> THEN ys
    ELSE IF ys = <<>> THEN xs
    ELSE LET last == xs[Len(xs)]
         IN  IF last[Len(last)] = NL
             THEN xs \o ys
             ELSE SubSeq(xs, 1, Len(xs) - 1) \o << last \o ys[1] >> \o Tail(ys)

\* file.readlines(): the lines of a text, each keeping its terminator; a
\* last line without terminator is a line too
RECURSIVE readlines(_)
readlines(t) ==
    IF t = <<>> THEN <<>>
    ELSE IF Len(t) = 1 THEN << t >>
    ELSE LET m == Len(t) \div 2
         IN  JoinLines(readlines(SubSeq(t, 1, m)),
                       readlines(SubSeq(t, m + 1, Len(t))))

\* the pieces of a text x \o y from the pieces of x and of y: the last
\* piece of x continues in the first piece of y
JoinPieces(xs, ys) ==
    SubSeq(xs, 1, Len(xs) - 1) \o << xs[Len(xs)] \o ys[1] >> \o Tail(ys)

\* str.split('\n'): the pieces between separators, separators removed; the
\* split of the empty text is one empty piece
RECURSIVE split(_)
split(t) ==
    IF t = <<>> THEN << <<>> >>
    ELSE IF Len(t) = 1 THEN (IF t[1] = NL THEN << <<>>, <<>> >> ELSE << t >>)
    ELSE LET m == Len(t) \div 2
         IN  JoinPieces(split(SubSeq(t, 1, m)), split(SubSeq(t, m + 1, Len(t))))

\* '\n'.join(parts)
RECURSIVE join(_)
join(parts) ==
    IF parts = <<>> THEN <<>>
    ELSE IF Len(parts) = 1 THEN parts[1]
    ELSE LET m == Len(parts) \div 2
         IN  join(SubSeq(parts, 1, m)) \o <<NL>>
                 \o join(SubSeq(parts, m + 1, Len(parts)))

\* Python's slice index normalisation: a negative index counts from the
\* end, and the result is clamped to 0..n
ClampIndex(i, n) == IF i < 0 THEN Max(i + n, 0) ELSE Min(i, n)

\* seq[lo:hi]
Slice(seq, lo, hi) ==
    LET a == ClampIndex(lo, Len(seq))
        b == ClampIndex(hi, Len(seq))
    IN  IF a >= b THEN <<>> ELSE SubSeq(seq, a + 1, b)

\* seq[:hi]
SliceTo(seq, hi) == Slice(seq, 0, hi)

\* seq[lo:]
SliceFrom(seq, lo) ==
    LET a == ClampIndex(lo, Len(seq))
    IN  IF a >= Len(seq) THEN <<>> ELSE SubSeq(seq, a + 1, Len(seq))

\* str.startswith
startswith(t, prefix) ==
    Len(t) >= Len(prefix) /\ SubSeq(t, 1, Len(prefix)) = prefix

\* str.rfind of one character: the last 0-based index of ch in t, or -1
rfind(t, ch) ==
    LET hits == {i \in 1..Len(t) : t[i] = ch}
    IN  IF hits = {} THEN -1
        ELSE (CHOOSE i \in hits : \A j \in hits : j <= i) - 1

\* str.lstrip of one character
RECURSIVE lstrip(_, _)
lstrip(t, ch) ==
    IF t /= <<>> /\ t[1] = ch THEN lstrip(Tail(t), ch) ELSE t

\* ------------------------------------------------------------------------
\* Paths

PATH_PREFIX == <<"/", "w", "o", "r", "k", "s", "p", "a", "c", "e", "/">>

\* os.path.join(a, b) of posixpath, for two components
pathjoin(a, b) ==
    IF startswith(b, <<"/">>) THEN b
    ELSE IF a = <<>> \/ a[Len(a)] = "/" THEN a \o b
    ELSE a \o <<"/">> \o b

resolve_path(base_path, file_path) ==
    LET stripped == IF startswith(file_path, PATH_PREFIX)
                    THEN SubSeq(file_path, Len(PATH_PREFIX) + 1, Len(file_path))
                    ELSE file_path
    IN  pathjoin(base_path, stripped)

\* os.path.splitext(p)[1] of posixpath: the text from the last dot of the
\* last path component, unless that component has only leading dots
splitext(p) ==
    LET sepIndex == rfind(p, "/")
        dotIndex == rfind(p, ".")
    IN  IF dotIndex > sepIndex
           /\ \E k \in (sepIndex + 1)..(dotIndex - 1) : p[k + 1] /= "."
        THEN SubSeq(p, dotIndex + 1, Len(p))
        ELSE <<>>

\* the extension validate_file_content dispatches on
Extension(file_path) == lstrip(splitext(file_path), ".")

\* ------------------------------------------------------------------------
\* Values

\* Python's None where the code has Optional[str]; its one element is not a
\* character, so no text equals it
None == <<"<None>">>

\* the truth value Python gives an Optional[str]
Truthy(v) == v /= None /\ v /= <<>>

\* the line-window size of FileReadAction.run
WindowSize == 100

\* controller.workdir
workdir == <<"/", "w", "s">>

\* the paths the agent names: a.py, /workspace/b.js, c.cpp, d.txt, e.cc,
\* f.cxx, g.java, and three that point away from the workspace: /etc/h.txt,
\* ../i.txt, /workspace//j.txt
AgentPaths ==
    { <<"a", ".", "p", "y">>,
      PATH_PREFIX \o <<"b", ".", "j", "s">>,
      <<"c", ".", "c", "p", "p">>,
      <<"d", ".", "t", "x", "t">>,
      <<"e", ".", "c", "c">>,
      <<"f", ".", "c", "x", "x">>,
      <<"g", ".", "j", "a", "v", "a">>,
      <<"/", "e", "t", "c", "/", "h", ".", "t", "x", "t">>,
      <<".", ".", "/", "i", ".", "t", "x", "t">>,
      PATH_PREFIX \o <<"/", "j", ".", "t", "x", "t">> }

\* the contents the agent writes: "", "x", "x\ny"
WriteContents == { <<>>, <<"x">>, <<"x", NL, "y">> }

WriteStarts == 0..MaxIdx
WriteEnds == (-1)..MaxIdx

\* start_index values: around 0 and around +/- the window size
StartIndexes ==
    { b + k : b \in {0 - WindowSize, 0, WindowSize}, k \in (0 - MaxIdx)..MaxIdx }

Digits == <<"0", "1", "2", "3", "4", "5", "6", "7", "8", "9">>

\* line i of a long file: its three-digit number and a newline
LineText(i) ==
    << Digits[((i \div 100) % 10) + 1], Digits[((i \div 10) % 10) + 1],
       Digits[(i % 10) + 1], NL >>

\* a file of n numbered lines
BigFile(n) == Concat([i \in 1..n |-> LineText(i - 1)])

\* what the target may hold before the first action: "", "a\n", "a\nb", or
\* a long file
SmallContents ==
    { <<>>,
      <<"a", NL>>,
      <<"a", NL, "b">> }

InitContents ==
    SmallContents
    \cup { BigFile(n) : n \in WindowSize..(WindowSize + MaxExtraLines) }

\* what the checker process may write to its standard error
StdErrs == { <<>>, <<"E", "9", "9", "9">> }

\* outcomes of subprocess.run: the process cannot be spawned, or it exits
\* with a return code and a captured standard error
CheckerOutcomes ==
    { [spawned |-> FALSE, returncode |-> 0 - 1, stderr |-> <<>>] }
    \cup { [spawned |-> TRUE, returncode |-> rc, stderr |-> e] :
             rc \in {0, 1}, e \in StdErrs }

NoResult == [spawned |-> FALSE, returncode |-> 0, stderr |-> None]

\* the name tempfile.NamedTemporaryFile gives the file it creates
TempName(file_suffix) ==
    <<"/", "t", "m", "p", "/", "t", "m", "p">> \o file_suffix

NoAct == [kind |-> "none"]
NoObs == [kind |-> "none"]

FileReadObservation(path, content) ==
    [kind |-> "FileReadObservation", path |-> path, content |-> content]

FileWriteObservation(content, path) ==
    [kind |-> "FileWriteObservation", path |-> path, content |-> content]

AgentErrorObservation(content) ==
    [kind |-> "AgentErrorObservation", content |-> content]

\* an exception that leaves run()
Raised(exc) == [kind |-> "raise", exc |-> exc]

\* ------------------------------------------------------------------------
\* State

VARIABLES
    target,            \* the agent-visible path this session works on
    fs,                \* the workspace: existing path -> content
    tmpfs,             \* the temporary directory: existing path -> content
    pc,                \* where the action in progress stands
    act,               \* the action in progress, or the last one
    whole_path,        \* FileWriteAction.run: whole_path
    mode,              \* FileWriteAction.run: mode
    pos,               \* position of the open file object
    all_lines,         \* FileWriteAction.run: all_lines
    content_str,       \* FileWriteAction.run: content_str
    validation_error,  \* FileWriteAction.run: validation_error
    temp_path,         \* _run_validation: temp_path
    result,            \* _run_validation: result of subprocess.run
    obs,               \* what the last action returned or raised
    pre                \* the workspace when the action began

vars == << target, fs, tmpfs, pc, act, whole_path, mode, pos, all_lines,
           content_str, validation_error, temp_path, result, obs, pre >>

\* os.path.exists
exists(files, path) == path \in DOMAIN files

\* the file system after path is created or replaced with text
WithFile(files, path, text) ==
    [q \in (DOMAIN files) \cup {path} |-> IF q = path THEN text ELSE files[q]]

\* the file system after path is removed
WithoutFile(files, path) ==
    [q \in (DOMAIN files) \ {path} |-> files[q]]

\* file.write(data) at position p of a file holding old, then close: the
\* data overwrites from p on and nothing is truncated
WriteAt(old, p, data) ==
    SubSeq(old, 1, p) \o data \o SubSeq(old, p + Len(data) + 1, Len(old))

EmptyFs == [q \in {} |-> <<>>]

Init ==
    /\ target \in AgentPaths
    /\ fs \in {EmptyFs}
              \cup { WithFile(EmptyFs, resolve_path(workdir, target), c) :
                       c \in InitContents }
    /\ tmpfs = EmptyFs
    /\ pc = "idle"
    /\ act = NoAct
    /\ whole_path = <<>>
    /\ mode = ""
    /\ pos = 0
    /\ all_lines = <<>>
    /\ content_str = <<>>
    /\ validation_error = None
    /\ temp_path = None
    /\ result = NoResult
    /\ obs = NoObs
    /\ pre = fs

\* ------------------------------------------------------------------------
\* validate_file_content and _run_validation

\* the text 'Unsupported file type: '
UnsupportedPrefix ==
    << "U", "n", "s", "u", "p", "p", "o", "r", "t", "e", "d", " ",
       "f", "i", "l", "e", " ", "t", "y", "p", "e", ":", " " >>

\* _validate_cpp as it would be with the commented-out compiler call
\* enabled and reporting on every non-empty content
_validate_cpp_reporting(content) == content

\* _validate_cpp and _validate_java: the checker is commented out
_validate_cpp(content) == <<>>
_validate_java(content) == <<>>

\* the branch validate_file_content takes for a path
Checker(file_path) ==
    LET extension == Extension(file_path)
    IN  IF extension = <<"p", "y">> THEN "_validate_python"
        ELSE IF extension = <<"j", "s">> THEN "_validate_javascript"
        ELSE IF \/ extension = <<"c", "p", "p">>
                \/ extension = <<"c", "c">>
                \/ extension = <<"c", "x", "x">> THEN "_validate_cpp"
        ELSE IF extension = <<"j", "a", "v", "a">> THEN "_validate_java"
        ELSE "unsupported"

\* what validate_file_content returns on the branches that run no process
validate_file_content(file_path, content) ==
    IF Checker(file_path) = "_validate_cpp" THEN _validate_cpp(content)
    ELSE IF Checker(file_path) = "_validate_java" THEN _validate_java(content)
    ELSE UnsupportedPrefix \o Extension(file_path)

\* what _run_validation returns once subprocess.run has returned
RunResult(res) == IF res.returncode = 0 THEN None ELSE res.stderr

\* ------------------------------------------------------------------------
\* FileReadAction.run

\* the lines the read selects
code_slice(lines, start_index) ==
    LET total_lines == Len(lines)
    IN  IF total_lines >= WindowSize
        THEN LET end_index ==
                     IF total_lines - start_index - WindowSize >= 0
                     THEN start_index + WindowSize
                     ELSE 0 - 1
             IN  Slice(lines, start_index, end_index)
        ELSE lines

\* what run() returns or raises for a file holding text: code_view is bound
\* only when the slice has more than one line
ReadOutcome(path, text, start_index) ==
    LET sl == code_slice(readlines(text), start_index)
    IN  IF Len(sl) > 1
        THEN FileReadObservation(path, join(sl))
        ELSE Raised("UnboundLocalError")

\* Read as it would be with the file opened 'w+' instead of 'r': the open
\* truncates the file before it is read
Read_Truncating(start_index) ==
    /\ pc = "idle"
    /\ LET path == resolve_path(workdir, target)
       IN  /\ obs' = IF exists(fs, path)
                     THEN ReadOutcome(path, <<>>, start_index)
                     ELSE Raised("FileNotFoundError")
           /\ fs' = IF exists(fs, path) THEN WithFile(fs, path, <<>>) ELSE fs
           /\ whole_path' = path
    /\ act' = [kind |-> "read", path |-> target, start_index |-> start_index]
    /\ pre' = fs
    /\ mode' = "r"
    /\ pos' = 0
    /\ all_lines' = <<>>
    /\ content_str' = <<>>
    /\ validation_error' = None
    /\ temp_path' = None
    /\ result' = NoResult
    /\ UNCHANGED << target, tmpfs, pc >>

Read(start_index) ==
    /\ pc = "idle"
    /\ LET path == resolve_path(workdir, target)
       IN  /\ obs' = IF exists(fs, path)
                     THEN ReadOutcome(path, fs[path], start_index)
                     ELSE Raised("FileNotFoundError")
           /\ whole_path' = path
    /\ act' = [kind |-> "read", path |-> target, start_index |-> start_index]
    /\ pre' = fs
    /\ mode' = "r"
    /\ pos' = 0
    /\ all_lines' = <<>>
    /\ content_str' = <<>>
    /\ validation_error' = None
    /\ temp_path' = None
    /\ result' = NoResult
    /\ UNCHANGED << target, fs, tmpfs, pc >>

\* ------------------------------------------------------------------------
\* FileWriteAction.run

\* new_file: the kept prefix (or one empty line when start is 0), then
\* either the inserted lines and one empty line, or the kept suffix
new_file(lines, content, start, end) ==
    LET insert == split(content)
        head == IF start /= 0 THEN SliceTo(lines, start) ELSE << <<>> >>
    IN  head \o (IF end = 0 - 1
                 THEN insert \o << <<>> >>
                 ELSE SliceFrom(lines, end))

\* resolve the path, choose the mode and open the file; mode 'w' creates
\* the file empty
WriteOpen(content, start, end) ==
    /\ pc = "idle"
    /\ LET path == resolve_path(workdir, target)
       IN  /\ exists(fs, path) => Len(fs[path]) <= MaxFileLen
           /\ whole_path' = path
           /\ mode' = IF ~exists(fs, path) THEN "w" ELSE "r+"
           /\ fs' = IF ~exists(fs, path) THEN WithFile(fs, path, <<>>) ELSE fs
    /\ act' = [kind |-> "write", path |-> target, content |-> content,
               start |-> start, end |-> end]
    /\ pre' = fs
    /\ pos' = 0
    /\ all_lines' = <<>>
    /\ content_str' = <<>>
    /\ validation_error' = None
    /\ temp_path' = None
    /\ result' = NoResult
    /\ obs' = NoObs
    /\ pc' = "opened"
    /\ UNCHANGED << target, tmpfs >>

\* file.readlines() on a file opened 'r+'
WriteLoad ==
    /\ pc = "opened"
    /\ mode = "r+"
    /\ all_lines' = readlines(fs[whole_path])
    /\ pos' = Len(fs[whole_path])
    /\ pc' = "Loaded"
    /\ UNCHANGED << target, fs, tmpfs, act, whole_path, mode, content_str,
                    validation_error, temp_path, result, obs, pre >>

\* file.readlines() on a file opened 'w': the file is not readable, the
\* exception closes the file and leaves run()
WriteLoadFails ==
    /\ pc = "opened"
    /\ mode = "w"
    /\ obs' = Raised("UnsupportedOperation")
    /\ pc' = "idle"
    /\ UNCHANGED << target, fs, tmpfs, act, whole_path, mode, pos, all_lines,
                    content_str, validation_error, temp_path, result, pre >>

WriteSplice ==
    /\ pc = "Loaded"
    /\ content_str' = join(new_file(all_lines, act.content, act.start, act.end))
    /\ pc' = "Spliced"
    /\ UNCHANGED << target, fs, tmpfs, act, whole_path, mode, pos, all_lines,
                    validation_error, temp_path, result, obs, pre >>

\* validate_file_content for the extensions that run no process
ValidateDirect ==
    /\ pc = "Spliced"
    /\ Checker(whole_path) \notin {"_validate_python", "_validate_javascript"}
    /\ validation_error' = validate_file_content(whole_path, content_str)
    /\ pc' = "Validated"
    /\ UNCHANGED << target, fs, tmpfs, act, whole_path, mode, pos, all_lines,
                    content_str, temp_path, result, obs, pre >>

\* _validate_python: _run_validation writes the content to a temporary file
ValidatePython ==
    /\ pc = "Spliced"
    /\ Checker(whole_path) = "_validate_python"
    /\ temp_path' = TempName(<<".", "p", "y">>)
    /\ tmpfs' = WithFile(tmpfs, temp_path', content_str)
    /\ pc' = "run"
    /\ UNCHANGED << target, fs, act, whole_path, mode, pos, all_lines,
                    content_str, validation_error, result, obs, pre >>

\* _validate_javascript: _run_validation feeds the content on standard input
ValidateJavascript ==
    /\ pc = "Spliced"
    /\ Checker(whole_path) = "_validate_javascript"
    /\ temp_path' = None
    /\ pc' = "run"
    /\ UNCHANGED << target, fs, tmpfs, act, whole_path, mode, pos, all_lines,
                    content_str, validation_error, result, obs, pre >>

\* subprocess.run: the checker cannot be spawned, or runs and exits
RunChecker(outcome) ==
    /\ pc = "run"
    /\ result' = outcome
    /\ pc' = "finally"
    /\ UNCHANGED << target, fs, tmpfs, act, whole_path, mode, pos, all_lines,
                    content_str, validation_error, temp_path, obs, pre >>

\* RemoveTemp as it would be with the removal after the call instead of in
\* a finally block: nothing is removed when subprocess.run raises
RemoveTemp_AfterRunOnly ==
    tmpfs' = IF temp_path /= None /\ result.spawned
             THEN WithoutFile(tmpfs, temp_path)
             ELSE tmpfs

\* the finally block
RemoveTemp ==
    tmpfs' = IF temp_path /= None THEN WithoutFile(tmpfs, temp_path) ELSE tmpfs

\* the checker ran: _run_validation returns None or the standard error
ValidationReturns ==
    /\ pc = "finally"
    /\ result.spawned
    /\ RemoveTemp
    /\ validation_error' = RunResult(result)
    /\ pc' = "Validated"
    /\ UNCHANGED << target, fs, act, whole_path, mode, pos, all_lines,
                    content_str, temp_path, result, obs, pre >>

\* ValidationRaises as it would be with the spawn failure caught inside
\* _run_validation and turned into "no error"
ValidationRaises_Swallowed ==
    /\ pc = "finally"
    /\ ~result.spawned
    /\ RemoveTemp
    /\ validation_error' = None
    /\ pc' = "Validated"
    /\ UNCHANGED << target, fs, act, whole_path, mode, pos, all_lines,
                    content_str, temp_path, result, obs, pre >>

\* the checker could not be spawned: the exception passes the finally block
\* and the with block, which closes the file, and leaves run()
ValidationRaises ==
    /\ pc = "finally"
    /\ ~result.spawned
    /\ RemoveTemp
    /\ obs' = Raised("FileNotFoundError")
    /\ pc' = "idle"
    /\ UNCHANGED << target, fs, act, whole_path, mode, pos, all_lines,
                    content_str, validation_error, temp_path, result, pre >>

WriteCommit ==
    /\ pc = "Validated"
    /\ ~Truthy(validation_error)
    /\ fs' = WithFile(fs, whole_path, WriteAt(fs[whole_path], pos, content_str))
    /\ obs' = FileWriteObservation(<<>>, act.path)
    /\ pc' = "idle"
    /\ UNCHANGED << target, tmpfs, act, whole_path, mode, pos, all_lines,
                    content_str, validation_error, temp_path, result, pre >>

\* "Revert to the old file content"
WriteRollback ==
    /\ pc = "Validated"
    /\ Truthy(validation_error)
    /\ fs' = WithFile(fs, whole_path,
                      WriteAt(fs[whole_path], pos, join(all_lines)))
    /\ obs' = AgentErrorObservation(validation_error)
    /\ pc' = "idle"
    /\ UNCHANGED << target, tmpfs, act, whole_path, mode, pos, all_lines,
                    content_str, validation_error, temp_path, result, pre >>

Next ==
    \/ \E s \in StartIndexes : Read(s)
    \/ \E c \in WriteContents, s \in WriteStarts, e \in WriteEnds :
          WriteOpen(c, s, e)
    \/ WriteLoad
    \/ WriteLoadFails
    \/ WriteSplice
    \/ ValidateDirect
    \/ ValidatePython
    \/ ValidateJavascript
    \/ \E o \in CheckerOutcomes : RunChecker(o)
    \/ ValidationReturns
    \/ ValidationRaises
    \/ WriteCommit
    \/ WriteRollback

Spec == Init /\ [][Next]_vars

\* ------------------------------------------------------------------------
\* Properties

\* a Write has run to its end
WriteDone == pc = "idle" /\ act.kind = "write"

\* a Write has run to its end and the validator returned no diagnostic
WritePassed ==
    WriteDone /\ obs.kind \notin {"raise", "none"} /\ ~Truthy(validation_error)

\* a Write has run to its end and the validator returned a diagnostic
WriteFailed == WriteDone /\ Truthy(validation_error)

\* a Read of an existing file has run to its end
ReadDone == pc = "idle" /\ act.kind = "read" /\ exists(fs, whole_path)

\* a text without its trailing newlines
RECURSIVE StripTrailingNL(_)
StripTrailingNL(t) ==
    IF t /= <<>> /\ t[Len(t)] = NL
    THEN StripTrailingNL(SubSeq(t, 1, Len(t) - 1))
    ELSE t

\* the lines of a text without their terminators
LinesOf(t) ==
    LET ls == readlines(t)
    IN  [i \in 1..Len(ls) |-> StripTrailingNL(ls[i])]

\* C1: when validation fails, the file on disk after the Write equals the
\* file before it, and the Write returns an error observation whose content
\* is the diagnostic.
C1_FailedWriteLeavesFile ==
    WriteFailed =>
        /\ exists(pre, whole_path)
        /\ fs[whole_path] = pre[whole_path]
        /\ obs = AgentErrorObservation(validation_error)

\* C2: when validation passes on a Write to an existing file, the file on
\* disk after the Write is exactly the candidate that was validated, and the
\* Write returns a write-success observation with empty content.
C2_PassedWriteHoldsCandidate ==
    (WritePassed /\ exists(pre, whole_path)) =>
        /\ fs[whole_path] = content_str
        /\ obs = FileWriteObservation(<<>>, act.path)

\* C3: for a Write with end = m, m not -1, to an existing file, the
\* candidate is the kept prefix (the lines before start, or one empty line
\* when start is 0), then the lines of the new content, then the lines from
\* m onward.
C3_CandidateHoldsInsert ==
    (/\ act.kind = "write"
     /\ mode = "r+"
     /\ pc \notin {"opened", "Loaded"}
     /\ act.end /= 0 - 1) =>
        \E head \in {SliceTo(all_lines, act.start)}
                      \cup (IF act.start = 0 THEN {<< <<>> >>} ELSE {}) :
            content_str = join(head \o split(act.content)
                                    \o SliceFrom(all_lines, act.end))

\* C4: a passing Write with start = 0 and end = -1 to an existing file
\* leaves the file holding the new content (up to one trailing newline):
\* no line of the old file and no extra leading line.
C4_FullOverwrite ==
    (/\ WritePassed
     /\ exists(pre, whole_path)
     /\ act.start = 0
     /\ act.end = 0 - 1) =>
        fs[whole_path] \in {act.content, act.content \o <<NL>>}

\* C5: a passing Write with start = k > 0 and end = -1 to an existing file
\* of at least k lines leaves a file whose lines are the first k lines of
\* the old file followed by the lines of the new content.
C5_KeepPrefixDropRest ==
    (/\ WritePassed
     /\ exists(pre, whole_path)
     /\ act.start > 0
     /\ act.end = 0 - 1
     /\ Len(readlines(pre[whole_path])) >= act.start) =>
        LinesOf(fs[whole_path]) =
            SubSeq(LinesOf(pre[whole_path]), 1, act.start)
                \o LinesOf(act.content)

\* C6: a Write to a path that does not exist does not abort while loading,
\* and when validation passes the file holds the candidate and the Write
\* returns a write-success observation.
C6_FreshCreate ==
    (WriteDone /\ ~exists(pre, whole_path)) =>
        /\ obs /= Raised("UnsupportedOperation")
        /\ WritePassed =>
              /\ fs[whole_path] = content_str
              /\ obs = FileWriteObservation(<<>>, act.path)

\* C7: a Read with start_index 0 that follows a passing Write with
\* start = 0, end = -1 and content C of the same path returns C, up to
\* trailing newlines.
C7_RoundTripStep ==
    (/\ WritePassed
     /\ act.start = 0
     /\ act.end = 0 - 1
     /\ act'.kind = "read"
     /\ act'.start_index = 0) =>
        /\ obs'.kind = "FileReadObservation"
        /\ StripTrailingNL(obs'.content) = StripTrailingNL(act.content)

C7_RoundTrip == [][C7_RoundTripStep]_vars

\* C8: a Read of a file with fewer than 100 lines, 0 and 1 lines included,
\* returns a FileReadObservation whose content is the entire file (its
\* lines, concatenated or rejoined with newlines), whatever start_index is.
C8_ShortFileReadWhole ==
    (ReadDone /\ Len(readlines(fs[whole_path])) < WindowSize) =>
        /\ obs.kind = "FileReadObservation"
        /\ obs.content \in {fs[whole_path], join(readlines(fs[whole_path]))}

\* the lines [s, s+100) of the file, or [s, n) when fewer than 100 remain
ExpectedWindow(lines, s) ==
    SubSeq(lines, s + 1, Min(s + WindowSize, Len(lines)))

\* C9: a Read of a file with n >= 100 lines at start_index s, 0 <= s < n,
\* returns exactly the lines [s, s+100) when s+100 <= n and otherwise the
\* lines [s, n), none missing (concatenated or rejoined with newlines).
C9_LongFileWindow ==
    (/\ ReadDone
     /\ Len(readlines(fs[whole_path])) >= WindowSize
     /\ act.start_index >= 0
     /\ act.start_index < Len(readlines(fs[whole_path]))) =>
        LET window == ExpectedWindow(readlines(fs[whole_path]), act.start_index)
        IN  /\ obs.kind = "FileReadObservation"
            /\ obs.content \in {Concat(window), join(window)}

\* C10: a Read of an existing file does not fail, whatever start_index is,
\* negative and past-the-end values included: it returns a
\* FileReadObservation.
C10_ReadNeverFails ==
    ReadDone => obs.kind = "FileReadObservation"

\* C11: in temp-file mode, once _run_validation has returned or raised, the
\* temporary file it created no longer exists, whether the checker exited
\* with 0, exited nonzero, or could not be spawned.
C11_TempFileRemoved ==
    (/\ act.kind = "write"
     /\ temp_path /= None
     /\ pc \in {"Validated", "idle"}) =>
        ~exists(tmpfs, temp_path)

\* the checker of a temp-file validation could not be spawned and
\* _run_validation has raised
C11_Witness ==
    /\ WriteDone
    /\ temp_path /= None
    /\ result \in CheckerOutcomes
    /\ ~result.spawned

\* C12: a Write to a path whose extension is none of py, js, cpp, cc, cxx,
\* java never commits: it returns an error observation whose content is
\* 'Unsupported file type: ' followed by the extension.
C12_UnsupportedAlwaysRejected ==
    (WriteDone /\ Checker(whole_path) = "unsupported") =>
        obs = AgentErrorObservation(UnsupportedPrefix \o Extension(whole_path))

\* C13: a Write to an existing file with extension cpp, cc, cxx or java
\* always takes the commit branch: it returns a write-success observation,
\* never an error observation.
C13_NoopCheckersPass ==
    (/\ WriteDone
     /\ exists(pre, whole_path)
     /\ Checker(whole_path) \in {"_validate_cpp", "_validate_java"}) =>
        /\ ~Truthy(validation_error)
        /\ obs = FileWriteObservation(<<>>, act.path)

\* a Write of non-empty content to an existing java file has run to its end
C13_Witness ==
    /\ WriteDone
    /\ exists(pre, whole_path)
    /\ Checker(whole_path) = "_validate_java"
    /\ act.content /= <<>>
    /\ act.end = 0 - 1
    /\ obs.kind /= "none"

\* C14: a Read never changes the file system: after a Read, whether it
\* returned or raised, every file holds what it held before the Read.
C14_ReadLeavesFiles ==
    (pc = "idle" /\ act.kind = "read") => fs = pre

\* a Read of an existing, non-empty file has returned an observation
C14_Witness ==
    /\ ReadDone
    /\ obs.kind = "FileReadObservation"
    /\ fs[whole_path] /= <<>>

\* the components of a path: the texts between its slashes
RECURSIVE ComponentsFrom(_, _, _, _)
ComponentsFrom(p, i, cur, acc) ==
    IF i > Len(p)
    THEN Append(acc, cur)
    ELSE IF p[i] = "/"
         THEN ComponentsFrom(p, i + 1, <<>>, Append(acc, cur))
         ELSE ComponentsFrom(p, i + 1, Append(cur, p[i]), acc)

\* the directory names a path walks through once empty components and '.'
\* are dropped and each '..' has removed the name before it
RECURSIVE Walk(_, _)
Walk(comps, stack) ==
    IF comps = <<>> THEN stack
    ELSE IF comps[1] \in {<<>>, <<".">>} THEN Walk(Tail(comps), stack)
    ELSE IF comps[1] = <<".", ".">>
         THEN Walk(Tail(comps),
                   IF stack = <<>> THEN stack
                   ELSE SubSeq(stack, 1, Len(stack) - 1))
         ELSE Walk(Tail(comps), Append(stack, comps[1]))

NormalPath(p) == Walk(ComponentsFrom(p, 1, <<>>, <<>>), <<>>)

\* the absolute path p lies in the directory root or below it
UnderRoot(root, p) ==
    /\ startswith(p, <<"/">>)
    /\ Len(NormalPath(p)) >= Len(NormalPath(root))
    /\ SubSeq(NormalPath(p), 1, Len(NormalPath(root))) = NormalPath(root)

\* C15: the path an action resolves with resolve_path lies under the
\* workspace root, whatever path the agent supplied.
C15_ResolvedUnderRoot ==
    act.kind /= "none" => UnderRoot(workdir, whole_path)

\* a Write has run to its end and its checker process was spawned
CheckerRan == WriteDone /\ result \in CheckerOutcomes /\ result.spawned

\* a Write has run to its end and its checker process could not be spawned
CheckerNotSpawned == WriteDone /\ result \in CheckerOutcomes /\ ~result.spawned

\* C16: for a py or js Write whose checker ran, the Write is committed
\* (write-success observation) exactly when the checker exited with 0, and
\* a nonzero exit, whatever the standard error holds, gives an error
\* observation.
C16_CommitIffExitZero ==
    (/\ CheckerRan
     /\ Checker(whole_path) \in {"_validate_python", "_validate_javascript"}) =>
        /\ (obs.kind = "FileWriteObservation") <=> (result.returncode = 0)
        /\ (result.returncode /= 0) => (obs.kind = "AgentErrorObservation")

\* C17: while a Write is between opening the file and the return of the
\* validator the file system is what it was when the action began, and a
\* Write whose checker did not fail to start ends in Committed or
\* RolledBack.
C17_WriteStateMachine ==
    /\ (/\ act.kind = "write"
        /\ pc \in {"opened", "Loaded", "Spliced", "run", "finally", "Validated"}) =>
           fs = pre
    /\ (WriteDone /\ ~CheckerNotSpawned) =>
           obs.kind \in {"FileWriteObservation", "AgentErrorObservation"}

\* C18: when the checker cannot be spawned during a py or js Write to an
\* existing file, the failure leaves run() as an exception, no
\* write-success observation is returned, and the file system is what it
\* was before the action.
C18_SpawnFailureSurfaces ==
    (CheckerNotSpawned /\ exists(pre, whole_path)) =>
        /\ obs = Raised("FileNotFoundError")
        /\ fs = pre

\* the checker of a js Write to an existing, non-empty file could not be
\* spawned
C18_Witness ==
    /\ CheckerNotSpawned
    /\ exists(pre, whole_path)
    /\ Checker(whole_path) = "_validate_javascript"
    /\ pre[whole_path] /= <<>>

====
